---------------------------- MODULE Spec2Model ----------------------------
(***************************************************************************)
(* openg2p-fastapi-common: configuration resolution (config.py), the       *)
(* module-level configuration handles (app.py, middleware.py) and the      *)
(* Initializer life cycle (app.py).                                        *)
(*                                                                         *)
(* Four specifications share the variables below; each one drives one part *)
(* of the program and leaves the other parts idle:                         *)
(*   Spec            Settings.get_config and the config registry           *)
(*   SpecDatasource  Settings.validate_db_datasource                       *)
(*   SpecWorker      Settings.set_current_worker_id                        *)
(*   SpecApp         Initializer: initialize, main, lifespan               *)
(***************************************************************************)
EXTENDS Integers, Sequences, FiniteSets, TLC

VARIABLES
    \* ---- config registry (context.config_registry, a list) ----
    config_registry,   \* sequence of Settings instances [id, type]
    next_id,           \* identity of the next object cls() constructs
    app_config,        \* app.py      _config  (0 = module not imported)
    mw_config,         \* middleware.py _config (0 = module not imported)
    calls,             \* number of get_config calls made so far
    last,              \* history: the most recent get_config call
    first,             \* history: first instance returned per (cls, strict)
    \* ---- one Settings instance under validate_db_datasource ----
    settings,          \* the db_* fields of the instance
    ds_input,          \* history: db_datasource as bound from the environment
    ds_pc,             \* "idle" | "bound" | "resolved"
    \* ---- one Settings instance under set_current_worker_id ----
    worker,            \* [worker_type, worker_id, worker_pid]
    worker_pre,        \* history: worker as it was when the call started
    os_pid,            \* os.getpid()
    pgrep,             \* outcome of subprocess.check_output(["pgrep", ...])
    wk_pc,             \* "idle" | "bound" | "returned"
    wk_exc,            \* history: the exception the except clause swallowed
    \* ---- Initializer ----
    pc,                \* position of the process
    step,              \* index of the next call of initialize()
    steps,             \* history: the initialize() calls completed, in order
    cfg,               \* the fields of _config that app.py reads
    app_registry,      \* context.app_registry slot
    dbengine,          \* context.dbengine slot
    logger_handlers,   \* handlers attached by init_logger
    exc_handlers,      \* TRUE once BaseExceptionHandler() was constructed
    cmd,               \* sub-command chosen by parse_args
    app_local,         \* the local `app` of run_server / get_openapi
    disposed,          \* number of completed engine.dispose() calls
    err                \* exception that ended the process ("none" if none)

configVars == <<config_registry, next_id, app_config, mw_config, calls, last, first>>
dsVars     == <<settings, ds_input, ds_pc>>
workerVars == <<worker, worker_pre, os_pid, pgrep, wk_pc, wk_exc>>
appVars    == <<pc, step, steps, cfg, app_registry, dbengine, logger_handlers,
                exc_handlers, cmd, app_local, disposed, err>>
vars       == <<configVars, dsVars, workerVars, appVars>>

-----------------------------------------------------------------------------
(* Helpers                                                                 *)

Min(S) == CHOOSE x \in S : \A y \in S : x <= y

IsPrefix(s, t) == Len(s) <= Len(t) /\ SubSeq(t, 1, Len(s)) = s

-----------------------------------------------------------------------------
(* Settings.get_config and the config registry                             *)

\* Bound on the number of get_config calls explored.
MaxCalls == 4

\* The Settings class of config.py and a hierarchy of subclasses of it, as
\* services built on the library declare them.
Classes == {"Settings", "AppSettings", "ExtSettings", "OtherSettings"}

Base(c) ==
    CASE c = "AppSettings"   -> "Settings"
      [] c = "ExtSettings"   -> "AppSettings"
      [] c = "OtherSettings" -> "Settings"
      [] OTHER               -> "BaseSettings"

\* issubclass(t, c)
RECURSIVE IsSubclass(_, _)
IsSubclass(t, c) ==
    IF t = c THEN TRUE
    ELSE IF t \in Classes THEN IsSubclass(Base(t), c)
    ELSE FALSE

\* isinstance(config, cls)
IsInstance(config, cls) == IsSubclass(config.type, cls)

\* The registry before any get_config call (context.config_registry).
EmptyRegistry == << >>

\* The value of a module-level _config before its module is imported.
NotImported == 0

\* Fault: the strict flag is ignored and every lookup is exact.
MatchesAlwaysExact(config, cls, strict) == config.type = cls

\* Fault: the strict test compares the class with the instance itself.
MatchesNever(config, cls, strict) ==
    IF strict THEN FALSE ELSE IsInstance(config, cls)

\* The test of the loop body of get_config.
Matches(config, cls, strict) ==
    IF strict THEN cls = config.type ELSE IsInstance(config, cls)

\* Fault: the loop lacks its break and ends on the last match.
MatchIndexNoBreak(reg, cls, strict) ==
    LET idx == {i \in 1..Len(reg) : Matches(reg[i], cls, strict)}
    IN  IF idx = {} THEN 0 ELSE CHOOSE i \in idx : \A j \in idx : j <= i

\* The loop of get_config: the index of the first matching entry (the loop
\* breaks there), 0 when the loop ends with result = None.
MatchIndex(reg, cls, strict) ==
    LET idx == {i \in 1..Len(reg) : Matches(reg[i], cls, strict)}
    IN  IF idx = {} THEN 0 ELSE Min(idx)

\* Fault: the result is appended whether or not it was found.
RegistryAfterAlwaysAppend(reg, result, found) == Append(reg, result)

\* `if not result: ... config_registry.get().append(result)`
RegistryAfter(reg, result, found) ==
    IF found THEN reg ELSE Append(reg, result)

NoCall == [caller |-> "none", cls |-> "Settings", strict |-> FALSE,
           result |-> 0, rtype |-> "none", constructed |-> FALSE,
           repeat |-> FALSE, raised |-> FALSE, before |-> << >>]

FirstAfter(cls, strict, rid) ==
    IF first[<<cls, strict>>] = 0
    THEN [first EXCEPT ![<<cls, strict>>] = rid]
    ELSE first

\* cls.get_config(strict), called by `caller`; `ok` says whether cls(), if it
\* is reached, constructs an instance (FALSE: validation of the environment
\* raises).  GetConfigResult is the instance returned, id 0 when cls() raised.
GetConfigResult(cls, strict, ok) ==
    LET i == MatchIndex(config_registry, cls, strict)
    IN  IF i # 0 THEN config_registry[i]
        ELSE IF ok THEN [id |-> next_id, type |-> cls]
        ELSE [id |-> 0, type |-> "none"]

GetConfig(cls, strict, ok, caller) ==
    LET i      == MatchIndex(config_registry, cls, strict)
        found  == i # 0
        result == GetConfigResult(cls, strict, ok)
        raised == result.id = 0
    IN  /\ calls < MaxCalls
        /\ calls' = calls + 1
        /\ config_registry' =
              IF raised THEN config_registry
              ELSE RegistryAfter(config_registry, result, found)
        /\ next_id' = IF found \/ raised THEN next_id ELSE next_id + 1
        /\ last' = [caller |-> caller, cls |-> cls, strict |-> strict,
                    result |-> result.id, rtype |-> result.type,
                    constructed |-> ~found /\ ~raised,
                    repeat |-> first[<<cls, strict>>] # 0,
                    raised |-> raised, before |-> config_registry]
        /\ first' = IF raised THEN first ELSE FirstAfter(cls, strict, result.id)

\* Any caller: SomeSettings.get_config(strict=...)
CallGetConfig ==
    \E cls \in Classes, strict \in BOOLEAN, ok \in BOOLEAN :
        /\ GetConfig(cls, strict, ok, "call")
        /\ UNCHANGED <<app_config, mw_config>>

\* import of app.py: _config = Settings.get_config(strict=False)
ImportApp ==
    \E ok \in BOOLEAN :
        /\ app_config = NotImported
        /\ GetConfig("Settings", FALSE, ok, "app")
        /\ app_config' = GetConfigResult("Settings", FALSE, ok).id
        /\ UNCHANGED mw_config

\* import of middleware.py: _config = Settings.get_config(strict=False)
ImportMiddleware ==
    \E ok \in BOOLEAN :
        /\ mw_config = NotImported
        /\ GetConfig("Settings", FALSE, ok, "middleware")
        /\ mw_config' = GetConfigResult("Settings", FALSE, ok).id
        /\ UNCHANGED app_config

ConfigInit ==
    /\ config_registry = EmptyRegistry
    /\ next_id = 1
    /\ app_config = NotImported
    /\ mw_config = NotImported
    /\ calls = 0
    /\ last = NoCall
    /\ first = [k \in Classes \X BOOLEAN |-> 0]

ConfigNext ==
    \/ CallGetConfig /\ UNCHANGED <<dsVars, workerVars, appVars>>
    \/ ImportApp /\ UNCHANGED <<dsVars, workerVars, appVars>>
    \/ ImportMiddleware /\ UNCHANGED <<dsVars, workerVars, appVars>>

-----------------------------------------------------------------------------
(* Settings.validate_db_datasource                                         *)
(*                                                                         *)
(* A str is a sequence of one-character strings; an Optional value is a    *)
(* record [some, val], None being [some |-> FALSE].                        *)

None == [some |-> FALSE, val |-> << >>]
NoneInt == [some |-> FALSE, val |-> 0]
Some(v) == [some |-> TRUE, val |-> v]

\* bool(x) of an Optional[str]: None and "" are falsy
Truthy(o) == o.some /\ o.val # << >>

\* bool(x) of an Optional[int]: None and 0 are falsy
TruthyInt(o) == o.some /\ o.val # 0

Digit(d) ==
    CASE d = 0 -> "0" [] d = 1 -> "1" [] d = 2 -> "2" [] d = 3 -> "3"
      [] d = 4 -> "4" [] d = 5 -> "5" [] d = 6 -> "6" [] d = 7 -> "7"
      [] d = 8 -> "8" [] d = 9 -> "9"

\* str(n) of an int n >= 0
RECURSIVE IntToStr(_)
IntToStr(n) ==
    IF n < 10 THEN <<Digit(n)>> ELSE IntToStr(n \div 10) \o <<Digit(n % 10)>>

\* f"{x}" of an Optional[str]: None formats as the text None
Format(o) == IF o.some THEN o.val ELSE <<"N", "o", "n", "e">>

\* f"{x}" of an Optional[int]
FormatInt(o) == IF o.some THEN IntToStr(o.val) ELSE <<"N", "o", "n", "e">>

\* The values the environment binds to the db_* fields.
DatasourceValues == {None, Some(<< >>), Some(<<"x", ":", "/", "/", "y">>)}
DriverValues     == {None, Some(<< >>), Some(<<"p", "g">>)}
UsernameValues   == {None, Some(<< >>), Some(<<"u">>)}
PasswordValues   == {None, Some(<< >>), Some(<<"p", "w">>)}
HostnameValues   == {None, Some(<< >>), Some(<<"h">>)}
PortValues       == {NoneInt, Some(0), Some(5432)}
DbnameValues     == {None, Some(<< >>), Some(<<"d", "b">>)}

DbFields ==
    [db_datasource : DatasourceValues, db_driver : DriverValues,
     db_username : UsernameValues, db_password : PasswordValues,
     db_hostname : HostnameValues, db_port : PortValues,
     db_dbname : DbnameValues]

\* The datasource string built by lines 72-82.
Synthesize(s) ==
    LET d1 == IF Truthy(s.db_driver)
              THEN s.db_driver.val \o <<":", "/", "/">> ELSE << >>
        d2 == IF Truthy(s.db_username)
              THEN d1 \o s.db_username.val \o <<":">> \o Format(s.db_password) \o <<"@">>
              ELSE d1
        d3 == IF Truthy(s.db_hostname) THEN d2 \o s.db_hostname.val ELSE d2
        d4 == IF TruthyInt(s.db_port) THEN d3 \o <<":">> \o FormatInt(s.db_port) ELSE d3
        d5 == IF Truthy(s.db_dbname) THEN d4 \o <<"/">> \o s.db_dbname.val ELSE d4
    IN  d5

\* Fault: the early return for an explicit datasource is missing.
ValidateIgnoringExplicit(s) == [s EXCEPT !.db_datasource = Some(Synthesize(s))]

\* validate_db_datasource, as a function of the bound instance
ValidateDbDatasourceOf(s) ==
    IF Truthy(s.db_datasource) THEN s
    ELSE [s EXCEPT !.db_datasource = Some(Synthesize(s))]

\* The model validator runs once, after the raw fields are bound.
ValidateDbDatasource ==
    /\ ds_pc = "bound"
    /\ settings' = ValidateDbDatasourceOf(settings)
    /\ ds_pc' = "resolved"
    /\ UNCHANGED ds_input

DsIdle ==
    /\ settings = [db_datasource |-> None, db_driver |-> None,
                   db_username |-> None, db_password |-> None,
                   db_hostname |-> None, db_port |-> NoneInt, db_dbname |-> None]
    /\ ds_input = None
    /\ ds_pc = "idle"

DsInit ==
    /\ settings \in DbFields
    /\ ds_input = settings.db_datasource
    /\ ds_pc = "bound"

DsNext == ValidateDbDatasource /\ UNCHANGED <<configVars, workerVars, appVars>>

-----------------------------------------------------------------------------
(* Settings.set_current_worker_id                                          *)

\* Bound on the number of processes pgrep reports.
MaxProcs == 3

\* The process ids in use on the machine.
PidUniverse == {2, 5, 10, 11}

WorkerTypes == {"local", "uvicorn", "gunicorn"}

\* Lists of distinct process ids, in any order.
PidLists ==
    {l \in UNION {[1..n -> PidUniverse] : n \in 1..MaxProcs} :
        \A i, j \in 1..Len(l) : i # j => l[i] # l[j]}

\* What pgrep prints for a list of processes: one id per line.
RECURSIVE PgrepOutput(_)
PgrepOutput(l) ==
    IF l = << >> THEN << >>
    ELSE IntToStr(Head(l)) \o <<"\n">> \o PgrepOutput(Tail(l))

\* The outcomes of subprocess.check_output(["pgrep", "-f", name]): the tool
\* is absent (FileNotFoundError), it exits non-zero (CalledProcessError), or
\* it prints the matching process ids.
PgrepOutcomes ==
    {[kind |-> "absent", pids |-> << >>, out |-> << >>],
     [kind |-> "error", pids |-> << >>, out |-> << >>]}
    \cup {[kind |-> "ok", pids |-> l, out |-> PgrepOutput(l)] : l \in PidLists}

\* text.split("\n"), `cur` being the piece under construction
RECURSIVE Split(_, _)
Split(s, cur) ==
    IF s = << >> THEN <<cur>>
    ELSE IF Head(s) = "\n" THEN <<cur>> \o Split(Tail(s), << >>)
    ELSE Split(Tail(s), Append(cur, Head(s)))

DigitVal(c) ==
    CASE c = "0" -> 0 [] c = "1" -> 1 [] c = "2" -> 2 [] c = "3" -> 3
      [] c = "4" -> 4 [] c = "5" -> 5 [] c = "6" -> 6 [] c = "7" -> 7
      [] c = "8" -> 8 [] c = "9" -> 9

\* int(a) of a string of decimal digits
RECURSIVE StrToInt(_)
StrToInt(a) ==
    IF Len(a) = 1 THEN DigitVal(a[1])
    ELSE 10 * StrToInt(SubSeq(a, 1, Len(a) - 1)) + DigitVal(a[Len(a)])

\* [int(a) for a in pieces if a]
RECURSIVE ParsePids(_)
ParsePids(pieces) ==
    IF pieces = << >> THEN << >>
    ELSE IF Head(pieces) = << >> THEN ParsePids(Tail(pieces))
    ELSE <<StrToInt(Head(pieces))>> \o ParsePids(Tail(pieces))

RECURSIVE Insert(_, _)
Insert(x, l) ==
    IF l = << >> THEN <<x>>
    ELSE IF x <= Head(l) THEN <<x>> \o l
    ELSE <<Head(l)>> \o Insert(x, Tail(l))

\* sorted(l) of a list of ints
RECURSIVE Sorted(_)
Sorted(l) == IF l = << >> THEN << >> ELSE Insert(Head(l), Sorted(Tail(l)))

\* Fault: the list is not sorted.
PidArrUnsorted(out) == ParsePids(Split(out, << >>))

\* pid_arr of lines 118-129
PidArr(out) == Sorted(ParsePids(Split(out, << >>)))

\* l.index(x), zero-based; only used when x is in l
Index(l, x) == Min({i \in 1..Len(l) : l[i] = x}) - 1

Contains(l, x) == \E i \in 1..Len(l) : l[i] = x

\* line 130: pid_arr.index(self.worker_pid) - 1
WorkerIdOf(pid_arr, pid) == Index(pid_arr, pid) - 1

\* line 112: self.worker_type == WorkerType.local
IsLocal(w) == w.worker_type = "local"

\* The exception raised inside the try block, "none" if it completes.
WorkerExc(g, pid) ==
    CASE g.kind = "absent" -> "FileNotFoundError"
      [] g.kind = "error"  -> "CalledProcessError"
      [] g.kind = "ok" /\ ~Contains(PidArr(g.out), pid) -> "ValueError"
      [] OTHER -> "none"

\* set_current_worker_id: the instance after the call.  worker_pid is
\* assigned first (line 115); the lookup and the assignment of worker_id
\* follow, and any exception ends the try block where it is raised.
SetCurrentWorkerIdOf(w, pid, g) ==
    IF IsLocal(w) THEN w
    ELSE LET w1 == [w EXCEPT !.worker_pid = pid]
         IN  IF WorkerExc(g, pid) # "none" THEN w1
             ELSE [w1 EXCEPT !.worker_id = WorkerIdOf(PidArr(g.out), w1.worker_pid)]

SetCurrentWorkerId ==
    /\ wk_pc = "bound"
    /\ worker' = SetCurrentWorkerIdOf(worker, os_pid, pgrep)
    /\ wk_exc' = IF IsLocal(worker) THEN "none" ELSE WorkerExc(pgrep, os_pid)
    /\ wk_pc' = "returned"
    /\ UNCHANGED <<worker_pre, os_pid, pgrep>>

\* Values of worker_id and worker_pid bound from the environment; -1 is the
\* default of both fields (lines 29-30).
WorkerIdValues == {-1, 3}
WorkerPidValues == {-1, 77}

WorkerIdle ==
    /\ worker = [worker_type |-> "local", worker_id |-> -1, worker_pid |-> -1]
    /\ worker_pre = worker
    /\ os_pid = 0
    /\ pgrep = [kind |-> "absent", pids |-> << >>, out |-> << >>]
    /\ wk_pc = "idle"
    /\ wk_exc = "none"

WorkerInit ==
    /\ worker \in [worker_type : WorkerTypes, worker_id : WorkerIdValues,
                   worker_pid : WorkerPidValues]
    /\ worker_pre = worker
    /\ os_pid \in PidUniverse
    /\ pgrep \in PgrepOutcomes
    /\ wk_pc = "bound"
    /\ wk_exc = "none"

WorkerNext == SetCurrentWorkerId /\ UNCHANGED <<configVars, dsVars, appVars>>

-----------------------------------------------------------------------------
(* Initializer: __init__, initialize, main, the sub-commands, the lifespan *)

\* The empty application slot and the empty engine slot of context.py.
NoApp == "None"
NoEngine == [engine |-> FALSE, url |-> << >>, echo |-> FALSE]

\* The datasource strings a resolved _config can carry.
ResolvedDatasources == {ValidateDbDatasourceOf(f).db_datasource : f \in DbFields}

\* logging_file_name: unset, a path that opens, a path that does not.
LoggingFiles == {"unset", "writable", "unwritable"}

Commands == {"run", "migrate", "getOpenAPI"}

\* Fault: init_db is called before init_app.
InitOrderDbFirst == <<"init_logger", "init_db", "init_app", "exception_handler">>

\* The body of initialize(), in program order.
InitOrder == <<"init_logger", "init_app", "init_db", "exception_handler">>

Completed(name) ==
    /\ steps' = Append(steps, name)
    /\ step' = step + 1

Abort(exc) ==
    /\ pc' = "exit"
    /\ err' = exc
    /\ UNCHANGED <<step, steps>>

\* Initializer(): __init__ calls self.initialize()
Construct ==
    /\ pc = "start"
    /\ pc' = "initialize"
    /\ UNCHANGED <<step, steps, cfg, app_registry, dbengine, logger_handlers,
                   exc_handlers, cmd, app_local, disposed, err>>

Running(name) ==
    /\ pc = "initialize"
    /\ step <= Len(InitOrder)
    /\ InitOrder[step] = name

InitLogger ==
    /\ Running("init_logger")
    /\ IF cfg.logging_file_name = "unwritable"
       THEN /\ Abort("OSError")
            /\ logger_handlers' = {"stdout"}
       ELSE /\ Completed("init_logger")
            /\ logger_handlers' =
                  IF cfg.logging_file_name = "unset"
                  THEN {"stdout"} ELSE {"stdout", "file"}
            /\ UNCHANGED <<pc, err>>
    /\ UNCHANGED <<cfg, app_registry, dbengine, exc_handlers, cmd, app_local,
                   disposed>>

InitApp ==
    /\ Running("init_app")
    /\ app_registry' = "app"
    /\ Completed("init_app")
    /\ UNCHANGED <<pc, err, cfg, dbengine, logger_handlers, exc_handlers, cmd,
                   app_local, disposed>>

\* init_db; `ok` says whether create_async_engine accepts the datasource.
InitDb(ok) ==
    /\ Running("init_db")
    /\ IF Truthy(cfg.db_datasource)
       THEN IF ok
            THEN /\ dbengine' = [engine |-> TRUE,
                                 url |-> cfg.db_datasource.val,
                                 echo |-> cfg.db_logging]
                 /\ Completed("init_db")
                 /\ UNCHANGED <<pc, err>>
            ELSE /\ Abort("ArgumentError")
                 /\ UNCHANGED dbengine
       ELSE /\ Completed("init_db")
            /\ UNCHANGED <<pc, err, dbengine>>
    /\ UNCHANGED <<cfg, app_registry, logger_handlers, exc_handlers, cmd,
                   app_local, disposed>>

\* BaseExceptionHandler()
InstallExceptionHandler ==
    /\ Running("exception_handler")
    /\ exc_handlers' = TRUE
    /\ Completed("exception_handler")
    /\ UNCHANGED <<pc, err, cfg, app_registry, dbengine, logger_handlers, cmd,
                   app_local, disposed>>

\* initialize() and __init__ return: the Initializer object exists.
InitializeReturn ==
    /\ pc = "initialize"
    /\ step > Len(InitOrder)
    /\ pc' = "constructed"
    /\ UNCHANGED <<step, steps, cfg, app_registry, dbengine, logger_handlers,
                   exc_handlers, cmd, app_local, disposed, err>>

\* main(): parse_args with the sub-command argument present ...
MainDispatch ==
    \E c \in Commands :
        /\ pc = "constructed"
        /\ cmd' = c
        /\ pc' = CASE c = "run" -> "run_server"
                   [] c = "migrate" -> "migrate_database"
                   [] c = "getOpenAPI" -> "get_openapi"
        /\ UNCHANGED <<step, steps, cfg, app_registry, dbengine,
                       logger_handlers, exc_handlers, app_local, disposed, err>>

\* ... or missing (required=True): parse_args exits
MainNoCommand ==
    /\ pc = "constructed"
    /\ pc' = "exit"
    /\ err' = "SystemExit"
    /\ UNCHANGED <<step, steps, cfg, app_registry, dbengine, logger_handlers,
                   exc_handlers, cmd, app_local, disposed>>

\* run_server: app = app_registry.get(); uvicorn.run(app, ...) enters the
\* lifespan context, which does nothing before its yield.
RunServer ==
    /\ pc = "run_server"
    /\ app_local' = app_registry
    /\ pc' = "serving"
    /\ UNCHANGED <<step, steps, cfg, app_registry, dbengine, logger_handlers,
                   exc_handlers, cmd, disposed, err>>

\* Shutdown of the server resumes the lifespan after its yield:
\* dbengine.get().dispose() is called on whatever the slot holds.
LifespanShutdown ==
    /\ pc = "serving"
    /\ IF dbengine = NoEngine
       THEN /\ pc' = "lifespan_failed"
            /\ err' = "AttributeError"
       ELSE /\ pc' = "disposing"
            /\ UNCHANGED err
    /\ UNCHANGED <<step, steps, cfg, app_registry, dbengine, logger_handlers,
                   exc_handlers, cmd, app_local, disposed>>

\* The awaited dispose() returns and the lifespan context exits.
DisposeReturn ==
    /\ pc = "disposing"
    /\ disposed' = disposed + 1
    /\ pc' = "lifespan_done"
    /\ UNCHANGED <<step, steps, cfg, app_registry, dbengine, logger_handlers,
                   exc_handlers, cmd, app_local, err>>

\* uvicorn.run returns
ServerExit ==
    /\ pc \in {"lifespan_done", "lifespan_failed"}
    /\ pc' = "exit"
    /\ UNCHANGED <<step, steps, cfg, app_registry, dbengine, logger_handlers,
                   exc_handlers, cmd, app_local, disposed, err>>

MigrateDatabase ==
    /\ pc = "migrate_database"
    /\ pc' = "exit"
    /\ UNCHANGED <<step, steps, cfg, app_registry, dbengine, logger_handlers,
                   exc_handlers, cmd, app_local, disposed, err>>

\* get_openapi; `ok` says whether the output file can be written.
GetOpenapi ==
    \E ok \in BOOLEAN :
        /\ pc = "get_openapi"
        /\ app_local' = app_registry
        /\ pc' = "exit"
        /\ err' = IF ok THEN err ELSE "OSError"
        /\ UNCHANGED <<step, steps, cfg, app_registry, dbengine,
                       logger_handlers, exc_handlers, cmd, disposed>>

AppIdle ==
    /\ pc = "idle"
    /\ step = 1
    /\ steps = << >>
    /\ cfg = [db_datasource |-> Some(<< >>), db_logging |-> FALSE,
              logging_file_name |-> "unset"]
    /\ app_registry = NoApp
    /\ dbengine = NoEngine
    /\ logger_handlers = {}
    /\ exc_handlers = FALSE
    /\ cmd = "none"
    /\ app_local = NoApp
    /\ disposed = 0
    /\ err = "none"

AppInit ==
    /\ pc = "start"
    /\ step = 1
    /\ steps = << >>
    /\ cfg \in [db_datasource : ResolvedDatasources, db_logging : BOOLEAN,
                logging_file_name : LoggingFiles]
    /\ app_registry = NoApp
    /\ dbengine = NoEngine
    /\ logger_handlers = {}
    /\ exc_handlers = FALSE
    /\ cmd = "none"
    /\ app_local = NoApp
    /\ disposed = 0
    /\ err = "none"

AppNext ==
    \/ Construct /\ UNCHANGED <<configVars, dsVars, workerVars>>
    \/ InitLogger /\ UNCHANGED <<configVars, dsVars, workerVars>>
    \/ InitApp /\ UNCHANGED <<configVars, dsVars, workerVars>>
    \/ (\E ok \in BOOLEAN : InitDb(ok)) /\ UNCHANGED <<configVars, dsVars, workerVars>>
    \/ InstallExceptionHandler /\ UNCHANGED <<configVars, dsVars, workerVars>>
    \/ InitializeReturn /\ UNCHANGED <<configVars, dsVars, workerVars>>
    \/ MainDispatch /\ UNCHANGED <<configVars, dsVars, workerVars>>
    \/ MainNoCommand /\ UNCHANGED <<configVars, dsVars, workerVars>>
    \/ RunServer /\ UNCHANGED <<configVars, dsVars, workerVars>>
    \/ LifespanShutdown /\ UNCHANGED <<configVars, dsVars, workerVars>>
    \/ DisposeReturn /\ UNCHANGED <<configVars, dsVars, workerVars>>
    \/ ServerExit /\ UNCHANGED <<configVars, dsVars, workerVars>>
    \/ MigrateDatabase /\ UNCHANGED <<configVars, dsVars, workerVars>>
    \/ GetOpenapi /\ UNCHANGED <<configVars, dsVars, workerVars>>

-----------------------------------------------------------------------------
(* Specifications                                                          *)

Init == ConfigInit /\ DsIdle /\ WorkerIdle /\ AppIdle
Next == ConfigNext
Spec == Init /\ [][Next]_vars

InitDatasource == ConfigInit /\ DsInit /\ WorkerIdle /\ AppIdle
SpecDatasource == InitDatasource /\ [][DsNext]_vars

InitWorker == ConfigInit /\ DsIdle /\ WorkerInit /\ AppIdle
SpecWorker == InitWorker /\ [][WorkerNext]_vars

InitApplication == ConfigInit /\ DsIdle /\ WorkerIdle /\ AppInit
SpecApp == InitApplication /\ [][AppNext]_vars

-----------------------------------------------------------------------------
(* Properties of get_config (checked under Spec)                           *)

Made == last.caller # "none"

Range(l) == {l[i] : i \in 1..Len(l)}

\* C1: a get_config(strict=True) call for a class that an earlier
\* get_config(strict=True) call already served returns the very instance
\* the first call returned, constructs nothing and leaves the registry as it
\* found it.
C1_StrictCallIsCached ==
    (Made /\ last.strict /\ last.repeat) =>
        /\ ~last.raised
        /\ last.result = first[<<last.cls, TRUE>>]
        /\ ~last.constructed
        /\ config_registry = last.before

C1_Witness ==
    /\ Made /\ last.strict /\ last.repeat
    /\ Len(config_registry) >= 2
    /\ last.result # config_registry[Len(config_registry)].id

\* C2: after any sequence of get_config calls the registry never holds two
\* entries of the same exact type (nor the same object twice), and it holds
\* every instance that was constructed.
C2_OneInstancePerType ==
    /\ \A i, j \in 1..Len(config_registry) :
          i # j => /\ config_registry[i].type # config_registry[j].type
                   /\ config_registry[i].id # config_registry[j].id
    /\ {config_registry[i].id : i \in 1..Len(config_registry)} = 1..(next_id - 1)

C2_Witness ==
    /\ Len(config_registry) >= 3
    /\ calls > Len(config_registry)
    /\ \E i, j \in 1..Len(config_registry) :
          /\ i < j
          /\ config_registry[i].type # config_registry[j].type
          /\ IsSubclass(config_registry[i].type, config_registry[j].type)

ProperSubtypeRegistered(reg, cls) ==
    \E i \in 1..Len(reg) : reg[i].type # cls /\ IsSubclass(reg[i].type, cls)

\* C3 (as stated): a get_config(strict=False) call for a class of which a
\* subtype instance is already registered returns a subtype instance,
\* whatever the registration order; a get_config(strict=True) call returns
\* an instance whose exact type is the class.
C3_ReturnsSubtypeInstance ==
    (Made /\ ~last.raised) =>
        IF last.strict THEN last.rtype = last.cls
        ELSE ProperSubtypeRegistered(last.before, last.cls) =>
                /\ ~last.constructed
                /\ last.rtype # last.cls
                /\ IsSubclass(last.rtype, last.cls)

\* C3 (amended): a get_config(strict=False) call for a class of which a
\* subtype instance is already registered constructs nothing and returns the
\* first instance in registration order that is of the class or of a subtype
\* of it (so the base instance, when that was registered first); a
\* get_config(strict=True) call only ever returns an instance whose exact
\* type is the class.
C3_StrictAndCompatibleLookup ==
    (Made /\ ~last.raised) =>
        IF last.strict THEN last.rtype = last.cls
        ELSE /\ IsSubclass(last.rtype, last.cls)
             /\ ProperSubtypeRegistered(last.before, last.cls) =>
                   /\ ~last.constructed
                   /\ config_registry = last.before
                   /\ \E i \in 1..Len(last.before) :
                         /\ last.before[i].id = last.result
                         /\ IsSubclass(last.before[i].type, last.cls)
                         /\ \A j \in 1..(i - 1) :
                               ~IsSubclass(last.before[j].type, last.cls)

C3_Witness ==
    /\ Made /\ ~last.strict /\ ~last.raised
    /\ last.cls = "Settings"
    /\ last.rtype # "Settings"
    /\ \E i \in 1..Len(last.before) : last.before[i].type = "Settings"

\* C10: get_config only ever appends to the registry (the registry before a
\* call is a prefix of the registry after it, and a call that constructs
\* nothing leaves it unchanged), and every call for a pair (class, strict)
\* returns the instance the first call for that pair returned; so the
\* _config of app.py and the _config of middleware.py are the same object.
C10_AppendOnlyStableResult ==
    /\ IsPrefix(last.before, config_registry)
    /\ ~last.constructed => config_registry = last.before
    /\ last.repeat => ~last.raised
    /\ (Made /\ ~last.raised) => last.result = first[<<last.cls, last.strict>>]
    /\ (app_config # NotImported /\ mw_config # NotImported) => app_config = mw_config

C10_Witness ==
    /\ last.caller = "middleware" /\ last.repeat
    /\ app_config # NotImported /\ mw_config = app_config
    /\ Len(last.before) >= 2
    /\ last.rtype # "Settings"
    /\ last.result # last.before[Len(last.before)].id

-----------------------------------------------------------------------------
(* Properties of validate_db_datasource (checked under SpecDatasource)     *)

\* The string driver://[user[:pass]@]host[:port][/dbname] with each optional
\* segment present iff its own source field is non-empty.
SegmentedDatasource(s) ==
    LET driver == IF Truthy(s.db_driver)
                  THEN s.db_driver.val \o <<":", "/", "/">> ELSE << >>
        pass   == IF Truthy(s.db_password)
                  THEN <<":">> \o s.db_password.val ELSE << >>
        user   == IF Truthy(s.db_username)
                  THEN s.db_username.val \o pass \o <<"@">> ELSE << >>
        host   == IF Truthy(s.db_hostname) THEN s.db_hostname.val ELSE << >>
        port   == IF TruthyInt(s.db_port)
                  THEN <<":">> \o IntToStr(s.db_port.val) ELSE << >>
        dbname == IF Truthy(s.db_dbname)
                  THEN <<"/">> \o s.db_dbname.val ELSE << >>
    IN  driver \o user \o host \o port \o dbname

C8_ExplicitDatasourceKept ==
    (ds_pc = "resolved" /\ Truthy(ds_input)) =>
        /\ settings.db_datasource = ds_input
        /\ settings \in DbFields

C8_Witness ==
    /\ ds_pc = "resolved" /\ Truthy(ds_input)
    /\ Truthy(settings.db_driver) /\ Truthy(settings.db_username)
    /\ Truthy(settings.db_hostname) /\ TruthyInt(settings.db_port)
    /\ Synthesize(settings) # ds_input.val

-----------------------------------------------------------------------------
(* Properties of set_current_worker_id (checked under SpecWorker)          *)

\* C5: when the derivation fails (pgrep absent, pgrep exiting non-zero, own
\* pid not in the list) both worker_id and worker_pid keep the values they
\* had before the call.
C5_FailureKeepsIdAndPid ==
    (wk_pc = "returned" /\ wk_exc # "none") =>
        /\ worker.worker_id = worker_pre.worker_id
        /\ worker.worker_pid = worker_pre.worker_pid

\* C9: for worker type local the call changes nothing; for another worker
\* type, when the lookup succeeds and lists the own pid, worker_pid is the
\* own pid and worker_id is the number of listed pids numerically below the
\* own pid, minus one (-1 for the lowest pid, 0, 1, ... for the others).
C9_WorkerIdIsRankMinusOne ==
    wk_pc = "returned" =>
        IF worker_pre.worker_type = "local" THEN worker = worker_pre
        ELSE (pgrep.kind = "ok" /\ os_pid \in Range(pgrep.pids)) =>
                /\ worker.worker_pid = os_pid
                /\ worker.worker_id =
                      Cardinality({p \in Range(pgrep.pids) : p < os_pid}) - 1
                /\ worker.worker_type = worker_pre.worker_type

C9_Witness ==
    /\ wk_pc = "returned" /\ worker.worker_type = "gunicorn"
    /\ pgrep.kind = "ok" /\ Len(pgrep.pids) = 3
    /\ pgrep.pids[1] > pgrep.pids[2]
    /\ os_pid = 10 /\ worker.worker_pid = 10
    /\ worker.worker_id = 1 /\ worker_pre.worker_id = -1

-----------------------------------------------------------------------------
(* Properties of the Initializer (checked under SpecApp)                   *)

\* C6: once the lifespan's shutdown part is over, no error was raised, and
\* the engine was disposed exactly when the engine slot had been set.
C6_ShutdownDisposesIffSet ==
    pc \in {"lifespan_done", "lifespan_failed"} =>
        /\ err = "none"
        /\ (disposed = 1) <=> dbengine.engine

AfterInit ==
    {"constructed", "run_server", "migrate_database", "get_openapi", "serving",
     "disposing", "lifespan_done", "lifespan_failed"}

\* C7: initialize() completes its calls in the order logger, application,
\* database engine, exception handler; main() dispatches only after all four
\* completed; run_server and get_openapi read a set application slot.
C7_InitOrderBeforeDispatch ==
    LET order == <<"init_logger", "init_app", "init_db", "exception_handler">>
    IN  /\ IsPrefix(steps, order)
        /\ (pc \in AfterInit \/ cmd # "none") =>
              /\ steps = order
              /\ app_registry = "app"
              /\ exc_handlers
              /\ "stdout" \in logger_handlers
        /\ (pc \in {"serving", "disposing", "lifespan_done", "lifespan_failed"}
            \/ (pc = "exit" /\ cmd \in {"run", "getOpenAPI"})) =>
              app_local = "app"

C7_Witness ==
    /\ pc = "serving" /\ cmd = "run"
    /\ app_local = "app"
    /\ dbengine.engine
    /\ "file" \in logger_handlers

=============================================================================
